---- MODULE Spec2Model ----
(***************************************************************************)
(* DView: dual-camera security monitor.                                    *)
(*                                                                         *)
(* The repository holds three independent programs over the same ideas:    *)
(*   "camera": backend/camera.py, class SecurityCamera (one device, MJPEG  *)
(*             generator loops, 10 s recorder threads, JSON event log);    *)
(*   "web":    backend/app.py (two capture threads cam1/cam2 sharing the   *)
(*             flag dictionaries with the /record and /toggle_motion       *)
(*             handlers);                                                  *)
(*   "gui":    backend/gui_with_preview.py (Tk monitor: video_update_loop  *)
(*             threads over two cameras, record_motion_clip threads).      *)
(* A behaviour of the model is a run of one of them: Init picks `program`  *)
(* and only that program's threads take steps.                             *)
(*                                                                         *)
(* Threads are interleaved at the granularity of the shared reads and      *)
(* writes of the source (CPython switches threads between bytecodes), so   *)
(* every check-then-act sequence of the code is two steps here.            *)
(*                                                                         *)
(* An image is abstracted to the pixel area `obj` of the one bright object *)
(* it shows on a dark background, plus what has been done to it (colour    *)
(* format, blur); two images of a scene differ in a region of area         *)
(* |obj1 - obj2|.                                                          *)
(***************************************************************************)
EXTENDS Integers, Sequences, FiniteSets, TLC

VARIABLES
    program,        \* which of the three programs this run is
    now,            \* time.time() / datetime.now(), in seconds
    camera,         \* camera.py: the fields of the SecurityCamera instance
    events_file,    \* camera.py: content of ../events/events.json (a JSON list)
    pc,             \* thread -> position in its code
    motion,         \* camera.py generate_frames: local `motion` of each loop
    events,         \* camera.py _log_event: local `events` of each caller
    call,           \* camera.py _log_event: [event_type, ret] of the call in progress
    trigger_type,   \* camera.py _record_clip: argument of each recorder thread
    start_time,     \* camera.py _record_clip: local `start_time`
    out,            \* local `out` (cv2.VideoWriter) of each recording thread
    part,           \* camera.py generate_frames: what each loop is suspended on at its yield
    completed,      \* history: number of _log_event calls that have returned
    motion_detected,\* app.py: global dict motion_detected; gui: self.motion_detected
    recording,      \* app.py: global dict recording; gui: self.recording
    prev_frame,     \* app.py: attribute detect_motion_and_record.prev_frame
    gray,           \* app.py detect_motion_and_record: local `gray` of each thread
    contours,       \* app.py detect_motion_and_record: local `contours` (largest area)
    resp,           \* app.py: status of the last HTTP response of /record, /toggle_motion
    seen,           \* history: camera -> last raw frame its detector processed
    first,          \* history, app.py: camera -> its thread has processed no frame yet
    last_frames,    \* gui_with_preview.py: dict self.last_frames
    running,        \* gui_with_preview.py: self.running
    cam_id          \* gui_with_preview.py: loop variable / argument `cam_id` of each thread

webVars == <<motion_detected, recording, prev_frame, gray, contours, resp,
             first>>

cameraVars == <<camera, events_file, motion, events, call, trigger_type,
                start_time, completed, part>>

webLocals == <<prev_frame, gray, contours, resp, first>>

guiVars == <<last_frames, running, cam_id>>

vars == <<program, now, pc, out, seen, cameraVars, webVars, guiVars>>

---------------------------------------------------------------------------
(* Bounds of the model *)

MaxTime == 10          \* the clock stops advancing here
MaxEvents == 2         \* _log_event calls per run with a device
MaxEventsNoDevice == 4 \* _log_event calls per run without a device

(* Program constants *)

duration == 10             \* camera.py:168
motion_threshold == 30     \* camera.py:18
DeltaCutoff == 25          \* camera.py:62, app.py:102
WebAreaThreshold == 5000   \* app.py:108
TickSeconds == duration   \* the modelled clock advances in clip durations

recording_duration == 10        \* gui_with_preview.py:54
gui_motion_threshold == 30      \* gui_with_preview.py:53

Programs == {"camera", "web", "gui"}

---------------------------------------------------------------------------
(* Images *)

Objs == {0, 6000}

NoFrame == [cam |-> "none", obj |-> 0, fmt |-> "none", blurred |-> FALSE]

\* cap.read() of camera c: a colour frame straight from the device
RawFrames(c) == [cam : {c}, obj : Objs, fmt : {"bgr"}, blurred : {FALSE}]

cvtColor(f) == [f EXCEPT !.fmt = "gray"]

GaussianBlur(g) == [g EXCEPT !.blurred = TRUE]

\* absdiff, threshold at the cutoff, dilate, findContours: the area of the
\* region in which the two images differ by more than the cutoff (the object
\* is at full intensity 255 > DeltaCutoff, so the region is the area grown or
\* shrunk; images of different cameras show different scenes and differ
\* wherever either shows its object)
ContourArea(ref, cur) ==
    IF ref.cam # cur.cam THEN ref.obj + cur.obj
    ELSE IF ref.obj > cur.obj THEN ref.obj - cur.obj ELSE cur.obj - ref.obj

\* camera.py detect_motion(frame): the value returned and the new last_frame
detect_motion(last_frame, frame) ==
    IF last_frame = NoFrame
    THEN [motion |-> FALSE, last_frame |-> cvtColor(frame)]
    ELSE LET blurred == GaussianBlur(cvtColor(frame))
         IN  [motion |-> ContourArea(last_frame, blurred) > motion_threshold,
              last_frame |-> blurred]

---------------------------------------------------------------------------
(* camera.py: threads *)

Streams == {<<"stream", 1>>, <<"stream", 2>>}       \* generate_frames loops
Handlers == {<<"request", 1>>}                      \* callers of manual_record
Recorders == {<<"rec", 1>>, <<"rec", 2>>}           \* _record_clip threads
CameraThreads == Streams \cup Handlers \cup Recorders

NoCall == [event_type |-> "none", ret |-> "none", then |-> "none"]
NoWriter == [path |-> <<"none", 0>>, opened |-> FALSE]

LogPcs == {"log_read", "log_write"}

InLog(t) == pc[t] \in LogPcs

\* _log_event calls entered so far
LogCalls == completed + Cardinality({t \in DOMAIN pc : InLog(t)})

CameraInit ==
    /\ camera \in [cap : {"None", "open"}, is_recording : {FALSE},
                   motion_detected : {FALSE}, last_frame : {NoFrame}]
    /\ events_file = <<>>
    /\ pc = [t \in CameraThreads |->
                IF t \in Recorders THEN "free" ELSE "off"]
    /\ motion = [t \in Streams |-> FALSE]
    /\ part = [t \in Streams |-> "none"]
    /\ events = [t \in CameraThreads |-> <<>>]
    /\ call = [t \in CameraThreads |-> NoCall]
    /\ trigger_type = [t \in Recorders |-> "none"]
    /\ start_time = [t \in Recorders |-> 0]
    /\ out = [t \in Recorders |-> NoWriter]
    /\ completed = 0
    /\ seen = [c \in {"camera"} |-> NoFrame]
    /\ motion_detected = <<>> /\ recording = <<>> /\ prev_frame = NoFrame
    /\ gray = <<>> /\ contours = <<>> /\ resp = "none"
    /\ first = <<>>
    /\ last_frames = <<>> /\ running = FALSE /\ cam_id = <<>>

\* the lowest free recorder slot: threading.Thread(...).start()
FreeRecorders == {r \in Recorders : pc[r] = "free"}
NextRecorder == CHOOSE r \in FreeRecorders : \A q \in FreeRecorders : r[2] <= q[2]

\* entering _log_event(event_type) from thread t, which continues at ret
\* and, when `then` names a trigger type, first starts the recorder thread
\* of the statement that follows the call
EnterLog(t, event_type, ret, then) ==
    /\ LogCalls < IF camera.cap = "None" THEN MaxEventsNoDevice ELSE MaxEvents
    /\ pc' = [pc EXCEPT ![t] = "log_read"]
    /\ call' = [call EXCEPT ![t] =
                   [event_type |-> event_type, ret |-> ret, then |-> then]]

\* lines 188-194: events = json.load(f), or [] when the file is missing or
\* does not parse
LogRead(t) ==
    /\ program = "camera"
    /\ pc[t] = "log_read"
    /\ events' = [events EXCEPT ![t] = events_file]
    /\ pc' = [pc EXCEPT ![t] = "log_write"]
    /\ UNCHANGED <<part, guiVars, webVars, program, now, camera, events_file, motion, call,
                   trigger_type, start_time, out, completed, seen>>

\* lines 196-199: events.append(event); open(events_file, 'w');
\* json.dump(events, f), and the return to the caller.  (The open truncates
\* the file before the dump fills it; a reader arriving in between gets []
\* from the except clause, which it also gets from an empty log.)
\* The caller's next statement, when it is a thread start (line 121 after
\* line 119, line 139 after line 138), is taken with the return: it touches
\* nothing another thread reads.
LogWrite(t) ==
    /\ program = "camera"
    /\ pc[t] = "log_write"
    /\ call[t].then # "none" => FreeRecorders # {}
    /\ events_file' = Append(events[t], call[t].event_type)
    /\ events' = [events EXCEPT ![t] = <<>>]
    /\ completed' = completed + 1
    /\ IF call[t].then # "none"
       THEN /\ pc' = [pc EXCEPT ![t] = call[t].ret, ![NextRecorder] = "check"]
            /\ trigger_type' = [trigger_type EXCEPT ![NextRecorder] = call[t].then]
       ELSE /\ pc' = [pc EXCEPT ![t] = call[t].ret]
            /\ UNCHANGED trigger_type
    /\ call' = [call EXCEPT ![t] = NoCall]
    /\ part' = IF t \in Streams THEN [part EXCEPT ![t] = "frame"] ELSE part
    /\ UNCHANGED <<guiVars, webVars, program, now, camera, motion, start_time, out, seen>>

---------------------------------------------------------------------------
(* camera.py: generate_frames, one loop per connected viewer *)

\* a viewer requests the stream: the generator starts
StreamStart(s) ==
    /\ program = "camera"
    /\ pc[s] = "off"
    /\ \A q \in Streams : q[2] < s[2] => pc[q] # "off"
    /\ pc' = [pc EXCEPT ![s] = "top"]
    /\ UNCHANGED <<part, guiVars, webVars, program, now, camera, events_file, motion, events, call,
                   trigger_type, start_time, out, completed, seen>>

\* StreamDummy leaving the loop instead of yielding the placeholder
StreamDummy_Ends(s) ==
    /\ program = "camera"
    /\ pc[s] = "top"
    /\ camera.cap = "None"
    /\ pc' = [pc EXCEPT ![s] = "ended"]
    /\ UNCHANGED <<part, motion, guiVars, webVars, program, now, camera, events_file,
                   events, call, trigger_type, start_time, out, completed, seen>>

\* lines 104-107 and 126-131: no device, frame = _create_dummy_frame() and
\* motion = False; the frame is encoded and yielded as one multipart part
StreamDummy(s) ==
    /\ program = "camera"
    /\ pc[s] = "top"
    /\ camera.cap = "None"
    /\ motion' = [motion EXCEPT ![s] = FALSE]
    /\ part' = [part EXCEPT ![s] = "placeholder"]
    /\ pc' = [pc EXCEPT ![s] = "top"]
    /\ UNCHANGED <<guiVars, webVars, program, now, camera, events_file, events, call,
                   trigger_type, start_time, out, completed, seen>>

\* lines 130-131: the viewer disconnects: the response closes the generator
\* suspended at its yield, and the loop is gone with it
StreamClose(s) ==
    /\ program = "camera"
    /\ pc[s] = "top"
    /\ part[s] # "none"
    /\ pc' = [pc EXCEPT ![s] = "ended"]
    /\ part' = [part EXCEPT ![s] = "none"]
    /\ UNCHANGED <<guiVars, webVars, program, now, camera, events_file, motion, events, call,
                   trigger_type, start_time, out, completed, seen>>

\* lines 111-113: the read fails and the loop ends
StreamReadFails(s) ==
    /\ program = "camera"
    /\ pc[s] = "top"
    /\ camera.cap = "open"
    /\ pc' = [pc EXCEPT ![s] = "ended"]
    /\ part' = [part EXCEPT ![s] = "none"]
    /\ UNCHANGED <<guiVars, webVars, program, now, camera, events_file, motion, events, call,
                   trigger_type, start_time, out, completed, seen>>

\* lines 111-116: a frame is read and handed to detect_motion
StreamRead(s) ==
    /\ program = "camera"
    /\ pc[s] = "top"
    /\ camera.cap = "open"
    /\ \E frame \in RawFrames("camera") :
          LET d == detect_motion(camera.last_frame, frame)
          IN  /\ motion' = [motion EXCEPT ![s] = d.motion]
              /\ camera' = [camera EXCEPT !.last_frame = d.last_frame]
              /\ seen' = [seen EXCEPT !["camera"] = frame]
    /\ pc' = [pc EXCEPT ![s] = "edge"]
    /\ part' = [part EXCEPT ![s] = "none"]
    /\ UNCHANGED <<guiVars, webVars, program, now, events_file, events, call,
                   trigger_type, start_time, out, completed>>

\* lines 117, 122-123: the test of the edge; no motion clears the flag
StreamEdge(s) ==
    /\ program = "camera"
    /\ pc[s] = "edge"
    /\ IF motion[s] /\ ~camera.motion_detected
       THEN /\ pc' = [pc EXCEPT ![s] = "set"]
            /\ UNCHANGED <<camera, part>>
       ELSE /\ pc' = [pc EXCEPT ![s] = "top"]
            /\ camera' = IF ~motion[s]
                         THEN [camera EXCEPT !.motion_detected = FALSE]
                         ELSE camera
            /\ part' = [part EXCEPT ![s] = "frame"]
    /\ UNCHANGED <<guiVars, webVars, program, now, events_file, motion, events, call,
                   trigger_type, start_time, out, completed, seen>>

\* StreamSet starting the recorder thread without logging the detection
StreamSet_NoLog(s) ==
    /\ program = "camera"
    /\ pc[s] = "set"
    /\ FreeRecorders # {}
    /\ camera' = [camera EXCEPT !.motion_detected = TRUE]
    /\ pc' = [pc EXCEPT ![s] = "top", ![NextRecorder] = "check"]
    /\ trigger_type' = [trigger_type EXCEPT ![NextRecorder] = "motion"]
    /\ UNCHANGED <<part, guiVars, webVars, program, now, events_file, motion, events,
                   call, start_time, out, completed, seen>>

\* lines 118-121: the flag is set and _log_event("motion_detected") entered;
\* Thread(target=self._record_motion_clip).start() follows its return
StreamSet(s) ==
    /\ program = "camera"
    /\ pc[s] = "set"
    /\ camera' = [camera EXCEPT !.motion_detected = TRUE]
    /\ EnterLog(s, "motion_detected", "top", "motion")
    /\ UNCHANGED <<part, guiVars, webVars, program, now, events_file, motion, events,
                   trigger_type, start_time, out, completed, seen>>

---------------------------------------------------------------------------
(* camera.py: manual_record, called by a request handler *)

ManualRequest(h) ==
    /\ program = "camera"
    /\ pc[h] = "off"
    /\ pc' = [pc EXCEPT ![h] = "check"]
    /\ UNCHANGED <<part, guiVars, webVars, program, now, camera, events_file, motion, events, call,
                   trigger_type, start_time, out, completed, seen>>

\* manual_record without the test of line 135
ManualCheck_NoTest(h) ==
    /\ program = "camera"
    /\ pc[h] = "check"
    /\ EnterLog(h, "manual_record", "off", "manual")
    /\ UNCHANGED <<part, guiVars, webVars, program, now, camera, events_file, motion, events,
                   trigger_type, start_time, out, completed, seen>>

\* lines 135-140: "Already recording", or _log_event("manual_record") entered;
\* Thread(target=self._record_clip, args=("manual",)).start() follows its
\* return
ManualCheck(h) ==
    /\ program = "camera"
    /\ pc[h] = "check"
    /\ IF camera.is_recording
       THEN /\ pc' = [pc EXCEPT ![h] = "off"]
            /\ UNCHANGED call
       ELSE EnterLog(h, "manual_record", "off", "manual")
    /\ UNCHANGED <<part, guiVars, webVars, program, now, camera, events_file, motion, events,
                   trigger_type, start_time, out, completed, seen>>

---------------------------------------------------------------------------
(* camera.py: _record_clip(trigger_type), one thread per trigger *)

\* RecCheck without the device test of line 152
RecCheck_NoDeviceTest(r) ==
    /\ program = "camera"
    /\ pc[r] = "check"
    /\ IF camera.is_recording
       THEN /\ pc' = [pc EXCEPT ![r] = "free"]
            /\ trigger_type' = [trigger_type EXCEPT ![r] = "none"]
       ELSE /\ pc' = [pc EXCEPT ![r] = "set"]
            /\ UNCHANGED trigger_type
    /\ UNCHANGED <<part, guiVars, webVars, program, now, camera, events_file, motion,
                   events, call, start_time, out, completed, seen>>

\* lines 148-154: return when already recording; without a device log
\* "<trigger_type>_no_camera" and return
RecCheck(r) ==
    /\ program = "camera"
    /\ pc[r] = "check"
    /\ IF camera.is_recording
       THEN /\ pc' = [pc EXCEPT ![r] = "free"]
            /\ trigger_type' = [trigger_type EXCEPT ![r] = "none"]
            /\ UNCHANGED call
       ELSE IF camera.cap = "None"
       THEN /\ EnterLog(r, trigger_type[r] \o "_no_camera", "free", "none")
            /\ trigger_type' = [trigger_type EXCEPT ![r] = "none"]
       ELSE /\ pc' = [pc EXCEPT ![r] = "set"]
            /\ UNCHANGED <<call, trigger_type>>
    /\ UNCHANGED <<part, guiVars, webVars, program, now, camera, events_file, motion, events,
                   start_time, out, completed, seen>>

\* lines 156-168: self.is_recording = True, then the file
\* "<trigger_type>_<timestamp>.mp4", its writer and start_time
RecStart(r) ==
    /\ program = "camera"
    /\ pc[r] = "set"
    /\ camera' = [camera EXCEPT !.is_recording = TRUE]
    /\ out' = [out EXCEPT ![r] = [path |-> <<trigger_type[r], now>>, opened |-> TRUE]]
    /\ start_time' = [start_time EXCEPT ![r] = now]
    /\ pc' = [pc EXCEPT ![r] = "loop"]
    /\ UNCHANGED <<part, guiVars, webVars, program, now, events_file, motion, events, call,
                   trigger_type, completed, seen>>

\* RecLoop with the clip also ended by the motion flag clearing
RecLoop_StopsWhenMotionClears(r) ==
    /\ program = "camera"
    /\ pc[r] = "loop"
    /\ IF now - start_time[r] < duration /\ camera.motion_detected
       THEN UNCHANGED <<pc, camera, out, trigger_type, start_time>>
       ELSE /\ camera' = [camera EXCEPT !.is_recording = FALSE]
            /\ pc' = [pc EXCEPT ![r] = "free"]
            /\ out' = [out EXCEPT ![r] = NoWriter]
            /\ trigger_type' = [trigger_type EXCEPT ![r] = "none"]
            /\ start_time' = [start_time EXCEPT ![r] = 0]
    /\ UNCHANGED <<part, guiVars, webVars, program, now, events_file, motion, events, call,
                   completed, seen>>

\* line 171: while time.time() - start_time < duration, with the body of
\* lines 172-176 (a frame is read and written to out, then the sleep); when
\* the test fails, lines 177-179: finally: out.release();
\* self.is_recording = False, and the thread ends
RecLoop(r) ==
    /\ program = "camera"
    /\ pc[r] = "loop"
    /\ IF now - start_time[r] < duration
       THEN UNCHANGED <<pc, camera, out, trigger_type, start_time>>
       ELSE /\ camera' = [camera EXCEPT !.is_recording = FALSE]
            /\ pc' = [pc EXCEPT ![r] = "free"]
            /\ out' = [out EXCEPT ![r] = NoWriter]
            /\ trigger_type' = [trigger_type EXCEPT ![r] = "none"]
            /\ start_time' = [start_time EXCEPT ![r] = 0]
    /\ UNCHANGED <<part, guiVars, webVars, program, now, events_file, motion, events, call,
                   completed, seen>>

---------------------------------------------------------------------------
(* app.py: the capture threads detect_motion_and_record(cap1, "cam1") and    *)
(* (cap2, "cam2"), and the handlers of POST /record and /toggle_motion      *)

WebCams == {"cam1", "cam2"}
CamArgs == WebCams \cup {"cam3"}    \* the `cam` query parameter of a request
Feeds == {"cam1"}                   \* the feed a viewer is connected to

WebInit ==
    /\ motion_detected = [c \in WebCams |-> FALSE]      \* line 77
    /\ recording = [c \in WebCams |-> FALSE]            \* line 78
    /\ prev_frame = NoFrame      \* the function has no attribute prev_frame
    /\ pc = [c \in WebCams |-> "read"]                  \* lines 123-124
    /\ out = [c \in WebCams |-> NoWriter]               \* line 87: out = None
    /\ gray = [c \in WebCams |-> NoFrame]
    /\ contours = [c \in WebCams |-> 0]
    /\ resp = "none"
    /\ seen = <<>>
    /\ first = [c \in WebCams |-> TRUE]
    /\ camera = [cap |-> "None", is_recording |-> FALSE,
                 motion_detected |-> FALSE, last_frame |-> NoFrame]
    /\ events_file = <<>> /\ motion = <<>> /\ events = <<>> /\ call = <<>>
    /\ part = [c \in Feeds |-> "none"]        \* no viewer has been served yet
    /\ trigger_type = <<>> /\ start_time = <<>> /\ completed = 0
    /\ last_frames = <<>> /\ running = FALSE /\ cam_id = <<>>

\* lines 90-97: a frame is read, converted and blurred, and
\* hasattr(detect_motion_and_record, "prev_frame") is tested
WebRead(c) ==
    /\ program = "web"
    /\ pc[c] = "read"
    /\ \E frame \in RawFrames(c) :
          gray' = [gray EXCEPT ![c] = GaussianBlur(cvtColor(frame))]
    /\ pc' = [pc EXCEPT ![c] = IF prev_frame = NoFrame THEN "seed" ELSE "delta"]
    /\ UNCHANGED <<guiVars, cameraVars, program, now, out, seen, motion_detected,
                   recording, prev_frame, contours, resp, first>>

\* lines 90-92: the read fails and the thread's loop ends
WebReadFails(c) ==
    /\ program = "web"
    /\ pc[c] = "read"
    /\ pc' = [pc EXCEPT ![c] = "ended"]
    /\ UNCHANGED <<guiVars, cameraVars, webVars, program, now, out, seen>>

\* lines 98-99: prev_frame = gray; continue
WebSeed(c) ==
    /\ program = "web"
    /\ pc[c] = "seed"
    /\ prev_frame' = gray[c]
    /\ gray' = [gray EXCEPT ![c] = NoFrame]
    /\ first' = [first EXCEPT ![c] = FALSE]
    /\ pc' = [pc EXCEPT ![c] = "read"]
    /\ UNCHANGED <<guiVars, cameraVars, program, now, out, seen, motion_detected,
                   recording, contours, resp>>

\* lines 101-104: absdiff against prev_frame, threshold, dilate, findContours
WebDelta(c) ==
    /\ program = "web"
    /\ pc[c] = "delta"
    /\ contours' = [contours EXCEPT ![c] = ContourArea(prev_frame, gray[c])]
    /\ pc' = [pc EXCEPT ![c] = "update"]
    /\ UNCHANGED <<guiVars, cameraVars, program, now, out, seen, motion_detected,
                   recording, prev_frame, gray, resp, first>>

\* lines 106-108: prev_frame = gray;
\* motion_detected[cam_key] = any(contourArea(c) > 5000 for c in contours)
WebUpdate(c) ==
    /\ program = "web"
    /\ pc[c] = "update"
    /\ prev_frame' = gray[c]
    /\ motion_detected' = [motion_detected EXCEPT ![c] = contours[c] > WebAreaThreshold]
    /\ contours' = [contours EXCEPT ![c] = 0]
    /\ gray' = [gray EXCEPT ![c] = NoFrame]
    /\ first' = [first EXCEPT ![c] = FALSE]
    /\ pc' = [pc EXCEPT ![c] = "start"]
    /\ UNCHANGED <<guiVars, cameraVars, program, now, out, seen, recording, resp>>

\* lines 110-113: motion and not recording: the flag and a new VideoWriter
WebStart(c) ==
    /\ program = "web"
    /\ pc[c] = "start"
    /\ IF motion_detected[c] /\ ~recording[c]
       THEN /\ recording' = [recording EXCEPT ![c] = TRUE]
            /\ out' = [out EXCEPT ![c] = [path |-> <<c, now>>, opened |-> TRUE]]
       ELSE UNCHANGED <<recording, out>>
    /\ pc' = [pc EXCEPT ![c] = "write"]
    /\ UNCHANGED <<guiVars, cameraVars, program, now, seen, motion_detected,
                   prev_frame, gray, contours, resp, first>>

\* lines 115-116: if recording[cam_key]: out.write(frame).  With out = None
\* the call raises AttributeError and the thread dies; a released writer
\* drops the frame.
WebWrite(c) ==
    /\ program = "web"
    /\ pc[c] = "write"
    /\ pc' = [pc EXCEPT ![c] = IF recording[c] /\ out[c] = NoWriter
                                THEN "crashed" ELSE "stop"]
    /\ UNCHANGED <<guiVars, cameraVars, webVars, program, now, out, seen>>

\* the stop check without the test of motion_detected
WebStop_IgnoresMotion(c) ==
    /\ program = "web"
    /\ pc[c] = "stop"
    /\ IF recording[c]
       THEN /\ recording' = [recording EXCEPT ![c] = FALSE]
            /\ IF out[c] = NoWriter
               THEN /\ pc' = [pc EXCEPT ![c] = "crashed"]
                    /\ UNCHANGED out
               ELSE /\ out' = [out EXCEPT ![c].opened = FALSE]
                    /\ pc' = [pc EXCEPT ![c] = "read"]
       ELSE /\ pc' = [pc EXCEPT ![c] = "read"]
            /\ UNCHANGED <<recording, out>>
    /\ UNCHANGED <<guiVars, cameraVars, program, now, seen, motion_detected,
                   prev_frame, gray, contours, resp, first>>

\* lines 118-120: no motion while recording: the flag is cleared and the
\* writer released (AttributeError when out is None)
WebStop(c) ==
    /\ program = "web"
    /\ pc[c] = "stop"
    /\ IF ~motion_detected[c] /\ recording[c]
       THEN /\ recording' = [recording EXCEPT ![c] = FALSE]
            /\ IF out[c] = NoWriter
               THEN /\ pc' = [pc EXCEPT ![c] = "crashed"]
                    /\ UNCHANGED out
               ELSE /\ out' = [out EXCEPT ![c].opened = FALSE]
                    /\ pc' = [pc EXCEPT ![c] = "read"]
       ELSE /\ pc' = [pc EXCEPT ![c] = "read"]
            /\ UNCHANGED <<recording, out>>
    /\ UNCHANGED <<guiVars, cameraVars, program, now, seen, motion_detected,
                   prev_frame, gray, contours, resp, first>>

\* lines 126-134, 140-146: generate_frames(cap) behind /video_feed_1 and
\* /video_feed_2: the generator reads the next frame from the capture object
\* the detection thread reads from, encodes it and yields it to the viewer
WebGenerateFrames(c) ==
    /\ program = "web"
    /\ \E frame \in RawFrames(c) : part' = [part EXCEPT ![c] = "frame"]
    /\ UNCHANGED <<camera, events_file, motion, events, call, trigger_type,
                   start_time, completed, guiVars, webVars, program, now, pc,
                   out, seen>>

\* lines 128-130: the read fails and the generator ends; the feed serves
\* nothing until a viewer requests it again
WebGenerateFramesFails(c) ==
    /\ program = "web"
    /\ part' = [part EXCEPT ![c] = "none"]
    /\ UNCHANGED <<camera, events_file, motion, events, call, trigger_type,
                   start_time, completed, guiVars, webVars, program, now, pc,
                   out, seen>>

\* WebManualRecord without the test of the camera key
WebManualRecord_NoTest(cam) ==
    /\ program = "web"
    /\ recording' = [c \in DOMAIN recording \cup {cam} |->
                        IF c = cam THEN TRUE ELSE recording[c]]
    /\ resp' = "200"
    /\ UNCHANGED <<guiVars, cameraVars, program, now, pc, out, seen, motion_detected,
                   prev_frame, gray, contours, first>>

\* lines 148-155: POST /record?cam=...
WebManualRecord(cam) ==
    /\ program = "web"
    /\ IF cam \notin WebCams
       THEN /\ resp' = "400"
            /\ UNCHANGED recording
       ELSE /\ recording' = [recording EXCEPT ![cam] = TRUE]
            /\ resp' = "200"
    /\ UNCHANGED <<guiVars, cameraVars, program, now, pc, out, seen, motion_detected,
                   prev_frame, gray, contours, first>>

\* lines 157-164: POST /toggle_motion?cam=...
WebToggleMotion(cam) ==
    /\ program = "web"
    /\ IF cam \notin WebCams
       THEN /\ resp' = "400"
            /\ UNCHANGED motion_detected
       ELSE /\ motion_detected' = [motion_detected EXCEPT ![cam] = ~motion_detected[cam]]
            /\ resp' = "200"
    /\ UNCHANGED <<guiVars, cameraVars, program, now, pc, out, seen, recording,
                   prev_frame, gray, contours, first>>

---------------------------------------------------------------------------
(* gui_with_preview.py: SecurityCameraGUI.  The Tk main thread runs the     *)
(* button callbacks; video_update_loop and record_motion_clip run in       *)
(* threads of their own.                                                    *)

GuiCams == {"video2", "video3"}                  \* line 34-37: self.cameras
FirstCam == "video2"
NextCam(c) == IF c = "video2" THEN "video3" ELSE "none"

Videos == {<<"video", 1>>, <<"video", 2>>}       \* video_update_loop threads
GuiThreads == Videos \cup Recorders
TkMain == <<"main", 0>>                          \* the thread of root.mainloop()

\* the keys of self.caps: init_camera and release_camera add and delete the
\* entries of caps, frames, last_frames, motion_detected and recording
\* together, and detect_motion stores last_frames[cam_id] in the step that
\* found cam_id in caps
caps == DOMAIN last_frames

\* del d[cam_id] for every cam_id of cams
DelKeys(d, cams) == [k \in DOMAIN d \ cams |-> d[k]]

\* d[cam_id] = value, which adds the key when it is missing
SetKey(d, c, value) == [k \in DOMAIN d \cup {c} |-> IF k = c THEN value ELSE d[k]]

\* gui detect_motion(cam_id, frame): the value returned and the new
\* last_frames[cam_id]
gui_detect_motion(last_frame, frame) ==
    IF last_frame = NoFrame
    THEN [motion |-> FALSE, last_frame |-> cvtColor(frame)]
    ELSE LET blurred == GaussianBlur(cvtColor(frame))
         IN  [motion |-> ContourArea(last_frame, blurred) > gui_motion_threshold,
              last_frame |-> blurred]

\* setup_cameras / init_camera, lines 207-211, with both devices opened
GuiInit ==
    /\ running = FALSE                                   \* line 47
    /\ last_frames = [c \in GuiCams |-> NoFrame]         \* line 209
    /\ motion_detected = [c \in GuiCams |-> FALSE]       \* line 210
    /\ recording = [c \in GuiCams |-> FALSE]             \* line 211
    /\ pc = [t \in GuiThreads \cup {TkMain} |->
                IF t = TkMain THEN "mainloop"
                ELSE IF t \in Recorders THEN "free" ELSE "off"]
    /\ cam_id = [t \in GuiThreads |-> "none"]
    /\ out = [t \in Recorders |-> NoWriter]
    /\ start_time = [t \in Recorders |-> 0]
    /\ seen = [c \in GuiCams |-> NoFrame]
    /\ camera = [cap |-> "None", is_recording |-> FALSE,
                 motion_detected |-> FALSE, last_frame |-> NoFrame]
    /\ events_file = <<>> /\ motion = <<>> /\ events = <<>> /\ call = <<>>
    /\ part = <<>>
    /\ trigger_type = <<>> /\ completed = 0
    /\ prev_frame = NoFrame /\ gray = <<>> /\ contours = <<>> /\ resp = "none"
    /\ first = <<>>

FreeVideos == {v \in Videos : pc[v] = "off"}
NextVideo == CHOOSE v \in FreeVideos : \A q \in FreeVideos : v[2] <= q[2]

\* lines 285-298: the Start button (enabled while not monitoring)
start_monitoring ==
    /\ program = "gui"
    /\ pc[TkMain] = "mainloop"
    /\ ~running
    /\ FreeVideos # {}
    /\ running' = TRUE
    /\ pc' = [pc EXCEPT ![NextVideo] = "top"]
    /\ UNCHANGED <<cameraVars, webVars, program, now, out, seen, last_frames,
                   cam_id>>

\* lines 300-312: the Stop button (enabled while monitoring)
stop_monitoring ==
    /\ program = "gui"
    /\ pc[TkMain] = "mainloop"
    /\ running
    /\ running' = FALSE
    /\ UNCHANGED <<cameraVars, webVars, program, now, pc, out, seen,
                   last_frames, cam_id>>

\* line 316: while self.running; line 317: the first camera of the pass
VideoTop(v) ==
    /\ program = "gui"
    /\ pc[v] = "top"
    /\ IF running
       THEN /\ pc' = [pc EXCEPT ![v] = "read"]
            /\ cam_id' = [cam_id EXCEPT ![v] = FirstCam]
       ELSE /\ pc' = [pc EXCEPT ![v] = "off"]
            /\ UNCHANGED cam_id
    /\ UNCHANGED <<cameraVars, webVars, program, now, out, seen, last_frames,
                   running>>

\* the position of video thread v after its pass over camera c: the next
\* camera, or the sleep and the loop test
AfterCam(v, c) ==
    [p |-> IF NextCam(c) = "none" THEN "top" ELSE "read", cam |-> NextCam(c)]

\* lines 321-322: cam_id is not in self.caps: continue
VideoNoCap(v) ==
    /\ program = "gui"
    /\ pc[v] = "read"
    /\ cam_id[v] \notin caps
    /\ pc' = [pc EXCEPT ![v] = AfterCam(v, cam_id[v]).p]
    /\ cam_id' = [cam_id EXCEPT ![v] = AfterCam(v, cam_id[v]).cam]
    /\ UNCHANGED <<cameraVars, webVars, program, now, out, seen, last_frames,
                   running>>

\* line 328: cap.read() has no timeout; on a hung device it does not return
VideoReadStalls(v) ==
    /\ program = "gui"
    /\ pc[v] = "read"
    /\ cam_id[v] \in caps
    /\ pc' = [pc EXCEPT ![v] = "stalled"]
    /\ UNCHANGED <<cameraVars, webVars, program, now, out, seen, last_frames,
                   running, cam_id>>

\* lines 328-330: the read fails: continue
VideoReadFails(v) ==
    /\ program = "gui"
    /\ pc[v] = "read"
    /\ cam_id[v] \in caps
    /\ pc' = [pc EXCEPT ![v] = AfterCam(v, cam_id[v]).p]
    /\ cam_id' = [cam_id EXCEPT ![v] = AfterCam(v, cam_id[v]).cam]
    /\ UNCHANGED <<cameraVars, webVars, program, now, out, seen, last_frames,
                   running>>

\* lines 328-341: a frame is read, detect_motion, the edge test; on a rising
\* edge the flag is set and start_motion_recording called
VideoRead(v) ==
    /\ program = "gui"
    /\ pc[v] = "read"
    /\ cam_id[v] \in caps
    /\ \E frame \in RawFrames(cam_id[v]) :
          LET c == cam_id[v]
              d == gui_detect_motion(last_frames[c], frame)
          IN  /\ last_frames' = [last_frames EXCEPT ![c] = d.last_frame]
              /\ seen' = [seen EXCEPT ![c] = frame]
              /\ IF d.motion /\ ~motion_detected[c]
                 THEN /\ motion_detected' = [motion_detected EXCEPT ![c] = TRUE]
                      /\ pc' = [pc EXCEPT ![v] = "start"]
                      /\ UNCHANGED cam_id
                 ELSE /\ motion_detected' =
                            IF ~d.motion
                            THEN [motion_detected EXCEPT ![c] = FALSE]
                            ELSE motion_detected
                      /\ pc' = [pc EXCEPT ![v] = AfterCam(v, c).p]
                      /\ cam_id' = [cam_id EXCEPT ![v] = AfterCam(v, c).cam]
    /\ UNCHANGED <<cameraVars, webLocals, recording, program, now, out,
                   running>>

\* lines 395-403: return when recording[cam_id], else a record_motion_clip
\* thread is started
start_motion_recording(v) ==
    /\ program = "gui"
    /\ pc[v] = "start"
    /\ LET c == cam_id[v]
       IN  IF c \notin DOMAIN recording
           THEN /\ pc' = [pc EXCEPT ![v] = "crashed"]     \* KeyError
                /\ UNCHANGED cam_id
           ELSE IF recording[c]
           THEN /\ pc' = [pc EXCEPT ![v] = AfterCam(v, c).p]
                /\ cam_id' = [cam_id EXCEPT ![v] = AfterCam(v, c).cam]
           ELSE /\ FreeRecorders # {}
                /\ pc' = [pc EXCEPT ![v] = AfterCam(v, c).p,
                                    ![NextRecorder] = "set"]
                /\ cam_id' = [cam_id EXCEPT ![v] = AfterCam(v, c).cam,
                                            ![NextRecorder] = c]
    /\ UNCHANGED <<cameraVars, webVars, program, now, out, seen, last_frames,
                   running>>

\* lines 407-408: return when cam_id is not in self.caps; lines 410-422:
\* self.recording[cam_id] = True, the file
\* "<cam_id>/motion/motion_<timestamp>.avi", its writer and start_time
ClipStart(r) ==
    /\ program = "gui"
    /\ pc[r] = "set"
    /\ IF cam_id[r] \notin caps
       THEN /\ pc' = [pc EXCEPT ![r] = "free"]
            /\ cam_id' = [cam_id EXCEPT ![r] = "none"]
            /\ UNCHANGED <<recording, out, start_time>>
       ELSE /\ recording' = SetKey(recording, cam_id[r], TRUE)
            /\ out' = [out EXCEPT ![r] = [path |-> <<cam_id[r], now>>,
                                          opened |-> TRUE]]
            /\ start_time' = [start_time EXCEPT ![r] = now]
            /\ pc' = [pc EXCEPT ![r] = "loop"]
            /\ UNCHANGED cam_id
    /\ UNCHANGED <<part, camera, events_file, motion, events, call, trigger_type,
                   completed, webLocals, motion_detected, last_frames, running,
                   program, now, seen>>

\* lines 425-432: while time.time() - start_time < self.recording_duration,
\* break when not self.running, else a frame is read and written to out,
\* then the sleep; lines 433-435: finally: out.release();
\* self.recording[cam_id] = False, and the thread ends
ClipLoop(r) ==
    /\ program = "gui"
    /\ pc[r] = "loop"
    /\ IF now - start_time[r] < recording_duration /\ running
       THEN UNCHANGED <<pc, recording, out, start_time, cam_id>>
       ELSE /\ recording' = SetKey(recording, cam_id[r], FALSE)
            /\ out' = [out EXCEPT ![r] = NoWriter]
            /\ start_time' = [start_time EXCEPT ![r] = 0]
            /\ cam_id' = [cam_id EXCEPT ![r] = "none"]
            /\ pc' = [pc EXCEPT ![r] = "free"]
    /\ UNCHANGED <<part, camera, events_file, motion, events, call, trigger_type,
                   completed, webLocals, motion_detected, last_frames, running,
                   program, now, seen>>

\* lines 448-456: the window is closed: self.running = False, then
\* release_camera (lines 224-232) for every key of self.caps: the device is
\* released and the camera's entries of caps, frames, last_frames,
\* motion_detected and recording are deleted; then root.destroy().  No thread
\* is joined.
on_closing ==
    /\ program = "gui"
    /\ pc[TkMain] = "mainloop"
    /\ running' = FALSE
    /\ last_frames' = DelKeys(last_frames, caps)
    /\ motion_detected' = DelKeys(motion_detected, caps)
    /\ recording' = DelKeys(recording, caps)
    /\ pc' = [pc EXCEPT ![TkMain] = "closed"]
    /\ UNCHANGED <<part, camera, events_file, motion, events, call, trigger_type,
                   start_time, completed, webLocals, cam_id, program, now, out,
                   seen>>

---------------------------------------------------------------------------
(* Clock *)

Tick ==
    /\ program \in {"camera", "gui"}
    /\ now + TickSeconds <= MaxTime
    /\ now' = now + TickSeconds
    /\ UNCHANGED <<guiVars, cameraVars, webVars, program, pc, out, seen>>

Init ==
    /\ program \in Programs
    /\ now = 0
    /\ program = "camera" => CameraInit
    /\ program = "web" => WebInit
    /\ program = "gui" => GuiInit

CameraNext ==
    \/ Tick
    \/ \E t \in CameraThreads : LogRead(t)
    \/ \E t \in CameraThreads : LogWrite(t)
    \/ \E s \in Streams : StreamStart(s)
    \/ \E s \in Streams : StreamDummy(s)
    \/ \E s \in Streams : StreamClose(s)
    \/ \E s \in Streams : StreamReadFails(s)
    \/ \E s \in Streams : StreamRead(s)
    \/ \E s \in Streams : StreamEdge(s)
    \/ \E s \in Streams : StreamSet(s)
    \/ \E h \in Handlers : ManualRequest(h)
    \/ \E h \in Handlers : ManualCheck(h)
    \/ \E r \in Recorders : RecCheck(r)
    \/ \E r \in Recorders : RecStart(r)
    \/ \E r \in Recorders : RecLoop(r)

WebNext ==
    \/ \E c \in WebCams : WebRead(c)
    \/ \E c \in WebCams : WebReadFails(c)
    \/ \E c \in WebCams : WebSeed(c)
    \/ \E c \in WebCams : WebDelta(c)
    \/ \E c \in WebCams : WebUpdate(c)
    \/ \E c \in WebCams : WebStart(c)
    \/ \E c \in WebCams : WebWrite(c)
    \/ \E c \in WebCams : WebStop(c)
    \/ \E c \in Feeds : WebGenerateFrames(c)
    \/ \E c \in Feeds : WebGenerateFramesFails(c)
    \/ \E cam \in CamArgs : WebManualRecord(cam)
    \/ \E cam \in CamArgs : WebToggleMotion(cam)

GuiNext ==
    \/ Tick
    \/ start_monitoring
    \/ stop_monitoring
    \/ \E v \in Videos : VideoTop(v)
    \/ on_closing
    \/ \E v \in Videos : VideoNoCap(v)
    \/ \E v \in Videos : VideoReadStalls(v)
    \/ \E v \in Videos : VideoReadFails(v)
    \/ \E v \in Videos : VideoRead(v)
    \/ \E v \in Videos : start_motion_recording(v)
    \/ \E r \in Recorders : ClipStart(r)
    \/ \E r \in Recorders : ClipLoop(r)

Next == CameraNext \/ WebNext \/ GuiNext

\* a run of any one of the programs
Spec == Init /\ [][Next]_vars

\* a run of backend/camera.py
CameraProgram == Init /\ program = "camera"
CameraSpec == CameraProgram /\ [][CameraNext]_vars

\* a run of backend/camera.py in which time passes and every started thread
\* (a _record_clip thread, a request inside manual_record or _log_event)
\* is scheduled; whether a viewer connects, and how far it pulls frames out
\* of its generator, is left to the viewer
CameraFairSpec ==
    /\ CameraSpec
    /\ WF_vars(Tick)
    /\ \A r \in Recorders : WF_vars(RecCheck(r) \/ RecStart(r) \/ RecLoop(r))
    /\ \A h \in Handlers : WF_vars(ManualCheck(h))
    /\ \A t \in Handlers \cup Recorders : WF_vars(LogRead(t) \/ LogWrite(t))

\* a run of backend/app.py
WebProgram == Init /\ program = "web"
WebSpec == WebProgram /\ [][WebNext]_vars

\* a run of backend/gui_with_preview.py
GuiProgram == Init /\ program = "gui"
GuiSpec == GuiProgram /\ [][GuiNext]_vars

\* a step of video_update_loop thread v, whatever its read returns
VideoStep(v) ==
    \/ VideoTop(v) \/ VideoNoCap(v) \/ VideoReadStalls(v) \/ VideoReadFails(v)
    \/ VideoRead(v) \/ start_motion_recording(v)

\* a step of record_motion_clip thread r
ClipStep(r) == ClipStart(r) \/ ClipLoop(r)

\* a run of backend/gui_with_preview.py in which every started thread is
\* scheduled for as long as the process lives: the threads are daemon
\* threads (lines 293, 401) and main() returns when root.destroy() has ended
\* root.mainloop() (lines 456, 473), so after on_closing nothing guarantees
\* them another step
GuiFairSpec ==
    /\ GuiSpec
    /\ \A v \in Videos : WF_vars(pc[TkMain] = "mainloop" /\ VideoStep(v))
    /\ \A r \in Recorders : WF_vars(pc[TkMain] = "mainloop" /\ ClipStep(r))

---------------------------------------------------------------------------
(* Claims *)

\* C1: in SecurityCamera at most one recording session (open VideoWriter)
\* exists at any time, under every interleaving of manual_record calls and
\* motion-triggered _record_clip threads.
C1_AtMostOneOpenWriter ==
    program = "camera" => Cardinality({r \in Recorders : out[r].opened}) <= 1

\* C2: once POST /record has set recording[cam] for an idle camera, the
\* capture loop finds a writer open whenever it executes its write step with
\* recording[cam] set: the frame is written and the loop keeps running.
C2_ManualRecordWritesFrames ==
    [][program = "web" => \A c \in WebCams :
          (pc[c] = "write" /\ pc'[c] # "write" /\ recording[c])
              => (out[c].opened /\ pc'[c] = "stop")]_vars

C4_ManualSessionFixedDuration ==
    [][program = "camera" => \A r \in Recorders :
          trigger_type[r] = "manual" =>
             /\ (pc[r] = "loop" /\ pc'[r] # "loop") =>
                   (now - start_time[r] >= duration /\ ~out'[r].opened)
             /\ (out[r].opened /\ ~out'[r].opened) =>
                   (pc[r] = "loop" /\ now - start_time[r] >= duration)
             /\ (pc[r] = "loop" /\ now - start_time[r] >= duration) =>
                   ~ENABLED (RecLoop(r) /\ out'[r].opened)]_vars

\* C4 witness: a manual session that reaches its duration while motion is
\* being detected
C4_Witness ==
    /\ program = "camera"
    /\ \E r \in Recorders : /\ trigger_type[r] = "manual" /\ out[r].opened
                            /\ pc[r] = "loop"
                            /\ now - start_time[r] >= duration
                            /\ camera.motion_detected

\* C5: every opened writer is released on every path out of Recording: no
\* writer of the web capture loop is open once the loop has ended or while
\* the camera is idle (recording[cam] false).
C5_WriterReleasedOnEveryExit ==
    program = "web" => \A c \in WebCams :
        (pc[c] \in {"ended", "crashed"} \/ ~recording[c]) => ~out[c].opened

\* C6: a trigger that finds the camera Recording (is_recording true at the
\* check of manual_record, line 135, or of _record_clip, line 148;
\* recording[cam_id] true at the check of the GUI's start_motion_recording)
\* returns and changes nothing: no thread is started, no writer opened, no
\* event appended, the recording flag and the running sessions are as
\* before.
C6_TriggerWhileRecordingIsNoOp ==
    [][/\ program = "camera" => \A t \in Handlers \cup Recorders :
             (pc[t] = "check" /\ pc'[t] # "check" /\ camera.is_recording) =>
                /\ pc'[t] = IF t \in Handlers THEN "off" ELSE "free"
                /\ \A q \in CameraThreads \ {t} : pc'[q] = pc[q]
                /\ \A q \in Recorders \ {t} : trigger_type'[q] = trigger_type[q]
                /\ UNCHANGED <<camera, events_file, out, start_time, call,
                               events, completed>>
       /\ program = "gui" => \A v \in Videos :
             (pc[v] = "start" /\ pc'[v] # "start" /\
              cam_id[v] \in DOMAIN recording /\ recording[cam_id[v]]) =>
                /\ \A q \in GuiThreads \ {v} :
                      pc'[q] = pc[q] /\ cam_id'[q] = cam_id[q]
                /\ UNCHANGED <<recording, out, start_time, motion_detected,
                               last_frames, running>>]_vars

\* C6 witness: manual_record and a _record_clip thread both at their check
\* while a session is running
C6_Witness ==
    /\ program = "camera"
    /\ camera.is_recording
    /\ \E h \in Handlers : pc[h] = "check"
    /\ \E r \in Recorders : pc[r] = "check"
    /\ \E r \in Recorders : out[r].opened

\* C7: the first frame a camera's detector processes never reports motion:
\* the comparison of a web camera's first frame finds no contour above the
\* threshold.
C7_FirstFrameReportsNoMotion ==
    program = "web" => \A c \in WebCams :
        (first[c] /\ pc[c] = "update") => ~(contours[c] > WebAreaThreshold)

\* C8: the reference frame held by a detector (SecurityCamera.last_frame,
\* the GUI's last_frames[cam_id]) is the grayscale and blurred version of
\* the frame it processed last, the reference stored by the seeding tick
\* included.
C8_ReferenceIsBlurredGrayOfLastFrame ==
    /\ program = "camera" =>
          (camera.last_frame # NoFrame =>
              camera.last_frame = GaussianBlur(cvtColor(seen["camera"])))
    /\ program = "gui" => \A c \in caps :
          (last_frames[c] # NoFrame =>
              last_frames[c] = GaussianBlur(cvtColor(seen[c])))

\* C9: motion state is owned per camera: the reference a web capture thread
\* compares against was read from its own camera, and its own first frame
\* is a seeding tick.
C9_ReferenceOwnedPerCamera ==
    program = "web" => \A c \in WebCams :
        /\ pc[c] = "delta" => prev_frame.cam = c
        /\ first[c] => pc[c] \notin {"delta", "update"}

\* C10: concurrent _log_event calls lose no append: the stored log holds the
\* event of every call that has returned.
C10_NoLostAppend ==
    program = "camera" => Len(events_file) = completed

\* C11: the event log is append-only in insertion order: every _log_event
\* call that returns leaves the stored sequence equal to the sequence stored
\* just before its write plus the new event as last element; nothing stored
\* earlier is removed, reordered or modified.
C11_AppendOnly ==
    [][program = "camera" =>
          (completed' # completed =>
              /\ Len(events_file') = Len(events_file) + 1
              /\ SubSeq(events_file', 1, Len(events_file)) = events_file)]_vars

C13_NoCameraTrigger ==
    [][(program = "camera" /\ camera.cap = "None") =>
          /\ ~camera'.is_recording
          /\ \A r \in Recorders :
                /\ out'[r] = NoWriter
                /\ (pc[r] = "check" /\ pc'[r] # "check") =>
                      /\ pc'[r] = "log_read"
                      /\ call'[r].event_type = trigger_type[r] \o "_no_camera"
                /\ (pc[r] = "log_write" /\ pc'[r] # "log_write") =>
                      /\ pc'[r] = "free"
                      /\ events_file' =
                            Append(events[r], call[r].event_type)
                      /\ call[r].event_type \in {"manual_no_camera",
                                                 "motion_no_camera"}]_vars

\* C13 witness: no device, two manual triggers have been handled one after
\* the other: their events are stored, the threads have ended and the
\* controller is idle
C13_Witness ==
    /\ program = "camera"
    /\ camera.cap = "None"
    /\ events_file = <<"manual_record", "manual_no_camera",
                       "manual_record", "manual_no_camera">>
    /\ ~camera.is_recording
    /\ \A r \in Recorders : pc[r] = "free" /\ out[r] = NoWriter

----------------------------------------------------------------------------
(* C14: when no capture device could be opened (cap is None), a stream loop
   never ends by itself and never reads a device: each iteration is enabled
   again at the top of the loop, which the loop leaves only when its viewer
   closes the generator at a yield; what it yields is a part holding the
   placeholder frame, its local motion stays False, the camera's motion flag
   stays False, and no motion recorder is started and no writer opened. *)
C14_PlaceholderStreamForever ==
    [][(program = "camera" /\ camera.cap = "None") =>
          /\ ~camera'.motion_detected
          /\ \A r \in Recorders :
                trigger_type'[r] # "motion" /\ out'[r] = NoWriter
          /\ \A s \in Streams :
                /\ pc'[s] \in {"off", "top", "ended"}
                /\ pc[s] = "top" => ENABLED StreamDummy(s)
                /\ ~motion'[s]
                /\ part'[s] # part[s] =>
                      part'[s] = "placeholder" \/ pc'[s] = "ended"
                /\ (pc[s] = "top" /\ pc'[s] # "top") =>
                      /\ part[s] = "placeholder"
                      /\ pc'[s] = "ended" /\ part'[s] = "none"]_vars

C14_Witness ==
    /\ program = "camera"
    /\ camera.cap = "None"
    /\ \A s \in Streams : pc[s] = "top" /\ part[s] = "placeholder"
    /\ completed = MaxEventsNoDevice
    /\ ~camera.motion_detected

----------------------------------------------------------------------------
(* C15: a failed frame read ends the capture loop that made it, and an
   ended loop takes no further step: it reads, processes and streams no
   further frame and is not restarted. *)
C15_ReadFailureEndsLoop ==
    [][/\ \A s \in Streams :
             (program = "camera" /\ StreamReadFails(s)) =>
                 pc'[s] = "ended" /\ part'[s] = "none"
       /\ \A c \in WebCams :
             (program = "web" /\ WebReadFails(c)) => pc'[c] = "ended"
       /\ \A v \in Videos :
             (program = "gui" /\ VideoReadFails(v)) => pc'[v] = "ended"
       /\ \A t \in DOMAIN pc : pc[t] = "ended" => pc'[t] = "ended"]_vars

----------------------------------------------------------------------------
(* C16: POST /record or POST /toggle_motion with a camera key that is not
   one of the cameras is answered with status 400 and changes neither the
   recording nor the motion_detected flag of any camera. *)
C16_UnknownCameraRejected ==
    [][program = "web" =>
          \A cam \in CamArgs \ WebCams :
             (WebManualRecord(cam) \/ WebToggleMotion(cam)) =>
                 /\ resp' = "400"
                 /\ UNCHANGED <<recording, motion_detected>>]_vars

C16_Witness ==
    /\ program = "web"
    /\ resp = "400"
    /\ recording["cam1"]
    /\ motion_detected["cam2"]
    /\ DOMAIN recording = WebCams

----------------------------------------------------------------------------
(* C17: while the recording session of a camera is open, every frame read
   from the camera's device is read by the camera's capture loop, which
   hands it to the motion detector (the blurred gray image of the frame is
   what the loop goes on to compare) and then to the writer; no frame is
   taken from the device by anything else, live-stream viewers included. *)
C17_EveryFrameDetectedAndWritten ==
    [][program = "web" =>
          \A c \in WebCams :
             (out[c].opened /\ recording[c] /\
              (WebRead(c) \/ (c \in Feeds /\ WebGenerateFrames(c)))) =>
                 /\ pc[c] = "read" /\ pc'[c] \in {"seed", "delta"}
                 /\ \E frame \in RawFrames(c) :
                       gray'[c] = GaussianBlur(cvtColor(frame))]_vars

----------------------------------------------------------------------------
(* C18: a camera's motion_detected flag and recording flag are written only
   by that camera's capture loop: every step that changes one of them is a
   step of the loop (its position changes), never a request handler's. *)
C18_CaptureLoopSoleWriter ==
    [][program = "web" =>
          \A c \in WebCams :
             (recording'[c] # recording[c] \/
              motion_detected'[c] # motion_detected[c]) =>
                 /\ pc'[c] # pc[c]
                 /\ pc[c] \in {"update", "start", "stop"}]_vars

----------------------------------------------------------------------------
(* C19: a camera whose read stalls, or whose processing raises, does not
   stop the other cameras: while monitoring is running, for every other
   open camera there is still a live capture loop that goes on to read it. *)
C19_OtherCameraKeepsRunning ==
    program = "gui" =>
        \A v \in Videos :
            (running /\ pc[v] \in {"stalled", "crashed"}) =>
                \A c \in caps \ {cam_id[v]} :
                    \E w \in Videos : pc[w] \in {"top", "read", "start"}

----------------------------------------------------------------------------
(* C20: shutdown is ordered.  The step of on_closing that releases the
   devices is taken only when every loop using them has ended (the video
   loops are off, the clip threads free); and once the cameras are released
   no thread reads, writes or creates an entry of last_frames,
   motion_detected or recording, and none fails on a missing entry. *)
C20_ReleaseAfterLoopsStopped ==
    [][program = "gui" =>
          /\ (pc[TkMain] = "mainloop" /\ pc'[TkMain] = "closed") =>
                \A t \in GuiThreads : pc[t] \in {"off", "free"}
          /\ pc[TkMain] = "closed" =>
                /\ UNCHANGED <<last_frames, motion_detected, recording>>
                /\ \A t \in GuiThreads : pc'[t] = "crashed" => pc[t] = "crashed"
                /\ \A v \in Videos : ~VideoRead(v) /\ ~VideoReadFails(v)]_vars

----------------------------------------------------------------------------
(* C21: a viewer that disconnects stops neither the delivery to the other
   viewers of the camera nor the capture loop: the step that closes one
   viewer's generator leaves every other generator where it was, and with
   the device open a loop that reads and checks frames is still running
   after it. *)
C21_DisconnectStopsNoLoop ==
    [][program = "camera" =>
          \A s \in Streams :
             StreamClose(s) =>
                /\ \A q \in Streams \ {s} :
                      pc'[q] = pc[q] /\ part'[q] = part[q]
                /\ camera.cap = "open" =>
                      \E q \in Streams : pc'[q] \notin {"off", "ended"}]_vars

----------------------------------------------------------------------------
(* C22: motion detection does not depend on viewers: with the device open,
   frames eventually reach the motion detector, which is what any
   motion_detected event and any motion-triggered recording start from,
   also when no viewer ever connects. *)
C22_DetectorRunsWithoutViewers ==
    (program = "camera" /\ camera.cap = "open") ~>
        (seen["camera"] # NoFrame \/ \E s \in Streams : pc[s] # "off")

----------------------------------------------------------------------------
(* C23: one file per session: two writers open at the same time never have
   the same file path, and a writer opened for a new session never has the
   path of the session recorded before it by the same loop. *)
C23_OneFilePerSession ==
    [][/\ \A t1, t2 \in DOMAIN out' :
             (t1 # t2 /\ out'[t1].opened /\ out'[t2].opened) =>
                 out'[t1].path # out'[t2].path
       /\ \A t \in DOMAIN out :
             (out[t] # NoWriter /\ ~out[t].opened /\ out'[t].opened) =>
                 out'[t].path # out[t].path]_vars

----------------------------------------------------------------------------
(* C24: in SecurityCamera every step of a stream loop that logs a
   motion_detected event and issues the motion recording trigger is a
   false -> true transition of the shared motion_detected flag, so a
   transition has one event and one trigger and a tick on which the flag
   is already true has none; and the flag goes back to false only in the
   edge test of a loop whose tick reported no motion. *)
C24_OneEventPerRisingEdge ==
    [][program = "camera" =>
          /\ \A s \in Streams :
                (pc[s] = "set" /\ pc'[s] # "set") =>
                    /\ ~camera.motion_detected /\ camera'.motion_detected
                    /\ call'[s].event_type = "motion_detected"
                    /\ call'[s].then = "motion"
          /\ \A s \in Streams :
                (call[s] = NoCall /\ call'[s] # NoCall) => pc[s] = "set"
          /\ (camera.motion_detected /\ ~camera'.motion_detected) =>
                \E s \in Streams :
                    pc[s] = "edge" /\ ~motion[s] /\ pc'[s] = "top"]_vars

----------------------------------------------------------------------------
(* C25: in the GUI monitor at most one record_motion_clip thread has a
   writer open for a camera at any time, for every sequence of motion
   edges. *)
C25_OneClipThreadPerCamera ==
    program = "gui" =>
        \A r1, r2 \in Recorders :
            (r1 # r2 /\ out[r1].opened /\ out[r2].opened) =>
                cam_id[r1] # cam_id[r2]

----------------------------------------------------------------------------
(* C26: once the stop flag is set, by stop_monitoring or by on_closing, and
   not set again, every record_motion_clip thread eventually has released
   its writer, reset recording[cam_id] to False and ended, and every
   video_update_loop has left its loop (or sits in a read that does not
   return, or has ended with the process). *)
Quiesced ==
    /\ \A r \in Recorders : pc[r] = "free" /\ ~out[r].opened
    /\ \A c \in DOMAIN recording : ~recording[c]
    /\ \A v \in Videos :
          pc[v] \in {"off", "stalled", "crashed"} \/ pc[TkMain] = "closed"

C26_StopReleasesWritersAndEndsLoop ==
    (program = "gui" /\ ~running) ~> (running \/ Quiesced)

\* C26 restricted to stop_monitoring: the same with the window still open
C26_StopMonitoringQuiesces ==
    (program = "gui" /\ ~running) ~>
        (running \/ Quiesced \/ pc[TkMain] = "closed")

----------------------------------------------------------------------------
(* C27: in the capture loop of app.py, whatever manual_record and
   toggle_motion requests arrive in between, the loop passes its write step
   and its release step with recording[cam] true only while it holds a
   writer (out is not None), and it starts each tick with recording[cam]
   true exactly when its writer is open and unreleased. *)
C27_FlagMatchesWriter ==
    [][program = "web" => \A c \in WebCams :
          /\ (pc[c] \in {"write", "stop"} /\ pc'[c] # pc[c] /\ recording[c])
                => out[c] # NoWriter
          /\ (pc[c] = "read" /\ pc'[c] # "read")
                => (recording[c] <=> out[c].opened)]_vars

----------------------------------------------------------------------------
(* C28: in the GUI monitor the per-camera dictionaries hold the same camera
   ids at all times: motion_detected and recording have exactly the keys of
   caps (and of last_frames), so a released camera has an entry in none of
   them. *)
C28_DictionariesShareKeys ==
    program = "gui" =>
        /\ DOMAIN motion_detected = caps
        /\ DOMAIN recording = caps

----------------------------------------------------------------------------
(* C29: in the GUI monitor, whatever the sequence of start_monitoring and
   stop_monitoring calls, at most one video_update_loop thread is inside a
   pass over the cameras (reading a frame or handling its motion) at any
   time. *)
C29_OneVideoLoop ==
    program = "gui" =>
        \A v1, v2 \in Videos :
            (pc[v1] \in {"read", "start"} /\ pc[v2] \in {"read", "start"})
                => v1 = v2

====
